---- MODULE Spec2Model ----
(***************************************************************************)
(* A model of package intmap (db47h/intmap): an open-addressing int ->     *)
(* Value map with linear probing, a detached slot for key 0, growth by     *)
(* doubling, backward-shift deletion, and an iterator.                     *)
(*                                                                         *)
(* Go slices are 0-indexed; the array es is a TLA+ sequence, so Go's       *)
(* es[i] is es[i + 1] here (operator At).                                   *)
(***************************************************************************)
EXTENDS Integers, Sequences, FiniteSets, TLC

VARIABLES
    m,      \* the Map struct: es, size, threshold, freeKeyValue, hasFreeKey
    sm,     \* the reference map of TestMap, driven by the same calls
    it,     \* the Iterator struct: lastKey, i (valid once created)
    last,   \* the call that produced this state: op, key, value
    ret,    \* what that call returned: ok, key, value
    seen,   \* the pairs Next has returned since the iterator was created
    fault   \* "none", or "panic" / "hang" once a call failed

vars == <<m, sm, it, last, ret, seen, fault>>

----------------------------------------------------------------------------
(* Bounds of the model *)

\* keys are -NegKeys..MaxKey: negative keys, key 0 and positive keys
MaxKey == 3
NegKeys == 2
\* values are 1..MaxVal
MaxVal == 2
\* Init is called with capacities 0..MaxInitCap
MaxInitCap == 2

Keys == (0 - NegKeys)..MaxKey
Values == 1..MaxVal
InitCaps == 0..MaxInitCap
\* the growth scenario inserts distinct keys of 1..MaxGrowKey
MaxGrowKey == 9
MaxSeen == 7
\* the capacity asked of Init where probe chains pass the end of the array
WrapCap == 4
GrowKeys == 1..MaxGrowKey
\* fill ratios, in eighths (all exactly representable as float32)
FillRatios == {-1, 4, 7, 8}

----------------------------------------------------------------------------
(* Program constants *)

freeKey == 0
\* 0.875, in eighths
defaultFillRatio == 7
FillDen == 8
DefaultCap == 8
\* the zero Value (nil)
Nil == 0

----------------------------------------------------------------------------
(* Bit operations on naturals *)

RECURSIVE BitAnd(_, _)
BitAnd(a, b) ==
    IF a = 0 \/ b = 0 THEN 0
    ELSE (a % 2) * (b % 2) + 2 * BitAnd(a \div 2, b \div 2)

RECURSIVE BitOr(_, _)
BitOr(a, b) ==
    IF a = 0 THEN b ELSE IF b = 0 THEN a
    ELSE (IF a % 2 = 1 \/ b % 2 = 1 THEN 1 ELSE 0) + 2 * BitOr(a \div 2, b \div 2)

RECURSIVE BitXor(_, _)
BitXor(a, b) ==
    IF a = 0 THEN b ELSE IF b = 0 THEN a
    ELSE ((a + b) % 2) + 2 * BitXor(a \div 2, b \div 2)

RECURSIVE Pow2(_)
Pow2(n) == IF n = 0 THEN 1 ELSE 2 * Pow2(n - 1)

----------------------------------------------------------------------------
(* 64-bit words as 8 bytes, least significant first (index 0..7) *)

\* the two's complement word of a small int v, |v| < 2^23
Word(v) ==
    [i \in 0..7 |-> IF i < 3 THEN (v \div Pow2(8 * i)) % 256
                    ELSE IF v < 0 THEN 255 ELSE 0]

\* -7046029254386353131 = 0x9E3779B97F4A7C15
HashMul == [i \in 0..7 |-> <<21, 124, 74, 127, 185, 121, 55, 158>>[i + 1]]

RECURSIVE ColSum(_, _, _, _)
ColSum(a, b, n, i) ==
    IF i > n THEN 0 ELSE a[i] * b[n - i] + ColSum(a, b, n, i + 1)

RECURSIVE Carry(_, _, _)
\* the carry into byte n of a * b
Carry(a, b, n) ==
    IF n = 0 THEN 0
    ELSE (ColSum(a, b, n - 1, 0) + Carry(a, b, n - 1)) \div 256

\* v *= c, wrapping at 64 bits
Mul64(a, b) == [n \in 0..7 |-> (ColSum(a, b, n, 0) + Carry(a, b, n)) % 256]

\* v >> 32 on a signed 64-bit int (arithmetic shift)
Shr32(w) ==
    [i \in 0..7 |-> IF i < 4 THEN w[i + 4] ELSE IF w[7] >= 128 THEN 255 ELSE 0]

hash(v) ==
    LET w == Mul64(Word(v), HashMul)
        s == Shr32(w)
    IN  [i \in 0..7 |-> BitXor(w[i], s[i])]

\* hash(k) for every key of the model, computed once
HashOf == [k \in Keys \cup GrowKeys |-> hash(k)]

\* hash(key) & mod for 0 <= mod < 2^16
AndMask(w, mod) == BitAnd(w[0] + 256 * w[1], mod)

nextIdx(idx) == idx + 1

\* the smear of v over its lower bits: v |= v >> 1; v |= v >> 2; ... v |= v >> 32
Smear(v) ==
    LET s1 == BitOr(v, v \div 2)
        s2 == BitOr(s1, s1 \div 4)
        s4 == BitOr(s2, s2 \div 16)
        s8 == BitOr(s4, s4 \div 256)
        s16 == BitOr(s8, s8 \div 65536)
    IN  s16  \* v >> 32 is 0 for v < 2^31

\* for v <= 0, v - 1 is negative, the smear of a negative int is -1, and -1 + 1 = 0
nextPowerOf2(v) == IF v <= 0 THEN 0 ELSE Smear(v - 1) + 1

----------------------------------------------------------------------------
(* The Map *)

KeyValue(k, v) == [Key |-> k, Value |-> v]

\* make([]KeyValue, l)
make(l) == [i \in 1..l |-> KeyValue(freeKey, Nil)]

At(es, i) == es[i + 1]

\* var m Map
ZeroMap ==
    [es |-> <<>>, size |-> 0, threshold |-> 0, freeKeyValue |-> Nil, hasFreeKey |-> FALSE]

\* int(float32(capacity) * fillratio), fillratio = fr / 8; int() truncates toward 0
Threshold(capacity, fr) ==
    IF fr < 0 THEN 0 - ((capacity * (0 - fr)) \div FillDen)
    ELSE (capacity * fr) \div FillDen

\* mutant: Init does not cap the threshold below the capacity
MapInitNoCap(mp, capacity, fr) ==
    LET c0 == nextPowerOf2(capacity)
        c == IF c0 < 2 THEN 2 ELSE c0
        t0 == Threshold(c, fr)
        t == IF t0 <= 0 THEN 1 ELSE t0
    IN  [mp EXCEPT !.es = make(c), !.size = 0, !.threshold = t,
                   !.freeKeyValue = Nil, !.hasFreeKey = FALSE]

\* mutant: Init leaves the free-key entry alone
MapInitKeepFreeKey(mp, capacity, fr) ==
    LET c0 == nextPowerOf2(capacity)
        c == IF c0 < 2 THEN 2 ELSE c0
        t0 == Threshold(c, fr)
        t == IF t0 <= 0 THEN 1 ELSE IF t0 >= c THEN c - 1 ELSE t0
    IN  [mp EXCEPT !.es = make(c), !.size = 0, !.threshold = t]

\* m.Init(capacity, fillratio); the panic on a negative rounded capacity needs
\* capacity > 2^62 and is out of the model's reach
MapInit(mp, capacity, fr) ==
    LET c0 == nextPowerOf2(capacity)
        c == IF c0 < 2 THEN 2 ELSE c0
        t0 == Threshold(c, fr)
        t == IF t0 <= 0 THEN 1 ELSE IF t0 >= c THEN c - 1 ELSE t0
    IN  [mp EXCEPT !.es = make(c), !.size = 0, !.threshold = t,
                   !.freeKeyValue = Nil, !.hasFreeKey = FALSE]

New(capacity, fr) == MapInit(ZeroMap, capacity, fr)

RECURSIVE SetProbe(_, _, _, _, _)
\* the probing loop of Set: the index of the first slot from idx that is empty
\* or holds key; the loop has no exit when there is none (-1: it never returns)
SetProbe(es, key, idx, mod, n) ==
    IF n > mod THEN -1
    ELSE IF At(es, idx).Key = freeKey \/ At(es, idx).Key = key THEN idx
    ELSE SetProbe(es, key, BitAnd(nextIdx(idx), mod), mod, n + 1)

RECURSIVE Set(_, _, _)
RECURSIVE rehash(_)
RECURSIVE rehashFrom(_, _, _)

\* for i := range es { if es[i].Key != freeKey { m.Set(es[i].Key, es[i].Value) } }
rehashFrom(mp, es, i) ==
    IF i >= Len(es) THEN mp
    ELSE IF At(es, i).Key /= freeKey
         THEN rehashFrom(Set(mp, At(es, i).Key, At(es, i).Value), es, i + 1)
         ELSE rehashFrom(mp, es, i + 1)

\* mutant: rehash does not reset the size counter
rehashKeepSize(mp) ==
    LET es == mp.es
        l == Len(es) * 2
    IN  rehashFrom([mp EXCEPT !.es = make(l), !.threshold = @ * 2], es, 0)

rehash(mp) ==
    LET es == mp.es
        l == Len(es) * 2
    IN  rehashFrom([mp EXCEPT !.es = make(l), !.size = 0, !.threshold = @ * 2], es, 0)

\* mutant: the lazy allocation takes the whole capacity as threshold
LazyAllocNoRatio(mp) ==
    [m |-> [mp EXCEPT !.es = make(DefaultCap), !.threshold = DefaultCap],
     l |-> DefaultCap]

\* lines 162-165 of Set: the array is allocated on first use, with
\* threshold int(defaultFillRatio * float32(l))
LazyAlloc(mp) ==
    [m |-> [mp EXCEPT !.es = make(DefaultCap),
                      !.threshold = (defaultFillRatio * DefaultCap) \div FillDen],
     l |-> DefaultCap]

\* mutant: an allocated array is never grown
GrowNever(mp) ==
    IF mp.size >= mp.threshold /\ Len(mp.es) = 0
    THEN LazyAlloc(mp)
    ELSE [m |-> mp, l |-> Len(mp.es)]

\* mutant: grows one entry before size reaches the threshold
GrowEarly(mp) ==
    IF mp.size + 1 >= mp.threshold
    THEN IF Len(mp.es) = 0 THEN LazyAlloc(mp)
         ELSE [m |-> rehash(mp), l |-> Len(mp.es) * 2]
    ELSE [m |-> mp, l |-> Len(mp.es)]

\* mutant: grows only once size is over the threshold
GrowLate(mp) ==
    IF mp.size > mp.threshold
    THEN IF Len(mp.es) = 0 THEN LazyAlloc(mp)
         ELSE [m |-> rehash(mp), l |-> Len(mp.es) * 2]
    ELSE [m |-> mp, l |-> Len(mp.es)]

\* lines 159-170 of Set, the growth check: the map and the local l after it
Grow(mp) ==
    IF mp.size >= mp.threshold
    THEN IF Len(mp.es) = 0 THEN LazyAlloc(mp)
         ELSE [m |-> rehash(mp), l |-> Len(mp.es) * 2]
    ELSE [m |-> mp, l |-> Len(mp.es)]

\* mutant: counts every store, also one that overwrites
SetStoreCount(g, key, value, idx) ==
    [g EXCEPT !.size = @ + 1, !.es[idx + 1] = KeyValue(key, value)]

\* mutant: stores only into an empty slot
SetStoreKeep(g, key, value, idx) ==
    IF At(g.es, idx).Key = freeKey
    THEN [g EXCEPT !.size = @ + 1, !.es[idx + 1] = KeyValue(key, value)]
    ELSE g

\* the switch of Set at the slot idx where the probing loop stops
SetStore(g, key, value, idx) ==
    [g EXCEPT !.size = IF At(g.es, idx).Key = freeKey THEN @ + 1 ELSE @,
              !.es[idx + 1] = KeyValue(key, value)]

\* mutant: key 0 is counted in size
SetFreeKeyCount(mp, value) ==
    [mp EXCEPT !.hasFreeKey = TRUE, !.freeKeyValue = value, !.size = @ + 1]

\* lines 154-158 of Set: key 0 goes to the free-key slot
SetFreeKey(mp, value) == [mp EXCEPT !.hasFreeKey = TRUE, !.freeKeyValue = value]

\* mutant: Set looks for the key first and grows only for a new key
SetGrowForNewKey(mp, key, value) ==
    IF key = freeKey
    THEN SetFreeKey(mp, value)
    ELSE LET held == \E i \in 1..Len(mp.es) : mp.es[i].Key = key
             g == IF held THEN [m |-> mp, l |-> Len(mp.es)] ELSE Grow(mp)
             mod == g.l - 1
             idx == SetProbe(g.m.es, key, AndMask(HashOf[key], mod), mod, 0)
         IN  IF idx < 0 THEN g.m ELSE SetStore(g.m, key, value, idx)

Set(mp, key, value) ==
    IF key = freeKey
    THEN SetFreeKey(mp, value)
    ELSE LET g == Grow(mp)
             mod == g.l - 1
             idx == SetProbe(g.m.es, key, AndMask(HashOf[key], mod), mod, 0)
         IN  IF idx < 0 THEN g.m ELSE SetStore(g.m, key, value, idx)

\* Set never returns: its probing loop finds neither an empty slot nor the key
SetHangs(mp, key) ==
    /\ key /= freeKey
    /\ LET g == Grow(mp)
           mod == g.l - 1
       IN  SetProbe(g.m.es, key, AndMask(HashOf[key], mod), mod, 0) < 0

RECURSIVE GetLoop(_, _, _, _, _)
\* the loop of Get: the index holding key, or -1 (an empty slot, or back at startIdx)
GetLoop(es, key, idx, startIdx, mod) ==
    IF At(es, idx).Key = freeKey THEN -1
    ELSE IF At(es, idx).Key = key THEN idx
    ELSE LET nxt == BitAnd(nextIdx(idx), mod)
         IN  IF nxt = startIdx THEN -1 ELSE GetLoop(es, key, nxt, startIdx, mod)

Get(mp, key) ==
    IF key = freeKey
    THEN IF mp.hasFreeKey THEN [v |-> mp.freeKeyValue, ok |-> TRUE]
         ELSE [v |-> Nil, ok |-> FALSE]
    ELSE LET mod == Len(mp.es) - 1
         IN  IF mod < 0 THEN [v |-> Nil, ok |-> FALSE]
             ELSE LET startIdx == AndMask(HashOf[key], mod)
                      idx == GetLoop(mp.es, key, startIdx, startIdx, mod)
                  IN  IF idx < 0 THEN [v |-> Nil, ok |-> FALSE]
                      ELSE [v |-> At(mp.es, idx).Value, ok |-> TRUE]

RECURSIVE shiftScanNoWrap(_, _, _, _, _)
\* mutant: the inner loop stops at no key once idx has wrapped below last
shiftScanNoWrap(es, lst, idx, mod, n) ==
    LET k == At(es, idx).Key
        slot == AndMask(HashOf[k], mod)
    IN  IF n > mod THEN -1
        ELSE IF k = freeKey THEN idx
        ELSE IF lst <= idx /\ (lst >= slot \/ slot > idx) THEN idx
        ELSE shiftScanNoWrap(es, lst, BitAnd(nextIdx(idx), mod), mod, n + 1)

RECURSIVE shiftScan(_, _, _, _, _)
\* the inner loop of shiftKeys: the index where it stops, at an empty slot or at
\* a key that may move back to last (-1: no such slot, the loop never exits)
shiftScan(es, lst, idx, mod, n) ==
    LET k == At(es, idx).Key
        slot == AndMask(HashOf[k], mod)
    IN  IF n > mod THEN -1
        ELSE IF k = freeKey THEN idx
        ELSE IF lst <= idx /\ (lst >= slot \/ slot > idx) THEN idx
        ELSE IF lst > idx /\ lst >= slot /\ slot > idx THEN idx
        ELSE shiftScan(es, lst, BitAnd(nextIdx(idx), mod), mod, n + 1)

\* mutant: the slot is cleared and no key is moved back
shiftLoopClear(es, idx, mod) == [es EXCEPT ![idx + 1] = KeyValue(freeKey, Nil)]

RECURSIVE shiftLoop(_, _, _)
\* the outer loop of shiftKeys
shiftLoop(es, idx, mod) ==
    LET lst == idx
        j == shiftScan(es, lst, BitAnd(nextIdx(idx), mod), mod, 0)
    IN  IF j < 0 THEN es
        ELSE IF At(es, j).Key = freeKey
        THEN [es EXCEPT ![lst + 1] = KeyValue(freeKey, Nil)]
        ELSE shiftLoop([es EXCEPT ![lst + 1] = KeyValue(At(es, j).Key, At(es, j).Value)],
                       j, mod)

shiftKeys(mp, idx) == [mp EXCEPT !.es = shiftLoop(mp.es, idx, Len(mp.es) - 1)]

RECURSIVE DeleteLoop(_, _, _, _, _)
\* the loop of Delete: the index holding key, or -1
DeleteLoop(es, key, idx, startIdx, mod) ==
    IF At(es, idx).Key = freeKey THEN -1
    ELSE IF At(es, idx).Key = key THEN idx
    ELSE LET nxt == BitAnd(nextIdx(idx), mod)
         IN  IF nxt = startIdx THEN -1 ELSE DeleteLoop(es, key, nxt, startIdx, mod)

\* lines 237-242 of Delete: key 0
DeleteFreeKey(mp) ==
    [m |-> [mp EXCEPT !.freeKeyValue = Nil, !.hasFreeKey = FALSE], ok |-> mp.hasFreeKey]

\* mutant: the size counter is not decremented
DeleteAtNoDec(mp, idx) == [m |-> shiftKeys(mp, idx), ok |-> TRUE]

\* lines 253-256 of Delete: the key is at idx
DeleteAt(mp, idx) == [m |-> [shiftKeys(mp, idx) EXCEPT !.size = @ - 1], ok |-> TRUE]

\* mutant: a miss decrements the size counter
DeleteMissCount(mp) == [m |-> [mp EXCEPT !.size = @ - 1], ok |-> FALSE]

\* lines 244-245, 251-252 and 259-261 of Delete: the key is not in the array
DeleteMiss(mp) == [m |-> mp, ok |-> FALSE]

\* the map after Delete(key), and what Delete returns
Delete(mp, key) ==
    IF key = freeKey
    THEN DeleteFreeKey(mp)
    ELSE LET mod == Len(mp.es) - 1
         IN  IF mod < 0 THEN DeleteMiss(mp)
             ELSE LET startIdx == AndMask(HashOf[key], mod)
                      idx == DeleteLoop(mp.es, key, startIdx, startIdx, mod)
                  IN  IF idx < 0 THEN DeleteMiss(mp) ELSE DeleteAt(mp, idx)

RECURSIVE GetWraps(_, _, _, _, _)
\* the loop of Get leaves by its last exit: idx is back at startIdx
GetWraps(es, key, idx, startIdx, mod) ==
    IF At(es, idx).Key = freeKey THEN FALSE
    ELSE IF At(es, idx).Key = key THEN FALSE
    ELSE LET nxt == BitAnd(nextIdx(idx), mod)
         IN  IF nxt = startIdx THEN TRUE ELSE GetWraps(es, key, nxt, startIdx, mod)

RECURSIVE DeleteWraps(_, _, _, _, _)
\* the loop of Delete leaves by its last exit: idx is back at startIdx
DeleteWraps(es, key, idx, startIdx, mod) ==
    IF At(es, idx).Key = freeKey THEN FALSE
    ELSE IF At(es, idx).Key = key THEN FALSE
    ELSE LET nxt == BitAnd(nextIdx(idx), mod)
         IN  IF nxt = startIdx THEN TRUE ELSE DeleteWraps(es, key, nxt, startIdx, mod)

Size(mp) == IF mp.hasFreeKey THEN mp.size + 1 ELSE mp.size

RECURSIVE KeysFill(_, _, _, _)
\* for e := range es { if k := es[e].Key; k != freeKey { ks[i] = k; i++ } }
\* (ks[i] with i = len(ks) is an index out of range)
KeysFill(ks, es, e, i) ==
    IF e >= Len(es) THEN [ks |-> ks, panic |-> FALSE]
    ELSE IF At(es, e).Key = freeKey THEN KeysFill(ks, es, e + 1, i)
    ELSE IF i >= Len(ks) THEN [ks |-> ks, panic |-> TRUE]
    ELSE KeysFill([ks EXCEPT ![i + 1] = At(es, e).Key], es, e + 1, i + 1)

\* mutant: the scan of the array starts at its second slot
MapKeysSkipFirst(mp) ==
    LET ks == [n \in 1..Size(mp) |-> 0]
    IN  IF mp.hasFreeKey
        THEN KeysFill([ks EXCEPT ![1] = freeKey], mp.es, 1, 1)
        ELSE KeysFill(ks, mp.es, 1, 0)

\* Keys(): the slice it returns, and whether it panics
MapKeys(mp) ==
    LET ks == [n \in 1..Size(mp) |-> 0]
    IN  IF mp.hasFreeKey
        THEN KeysFill([ks EXCEPT ![1] = freeKey], mp.es, 0, 1)
        ELSE KeysFill(ks, mp.es, 0, 0)

----------------------------------------------------------------------------
(* The reference map of TestMap: a function from its live keys to values *)

RefSet(r, k, v) == [x \in DOMAIN r \cup {k} |-> IF x = k THEN v ELSE r[x]]
RefDelete(r, k) == [x \in DOMAIN r \ {k} |-> r[x]]
EmptyRef == [x \in {} |-> Nil]


----------------------------------------------------------------------------
(* The Iterator *)

\* m.Iterator(): lastKey is freeKey ^ -1 = -1
Iterator == [lastKey |-> -1, i |-> -1]

RECURSIVE HasNextScan(_, _, _)
\* for e := i.i + 1; e < l; e++: the first occupied index from e, or l
HasNextScan(es, e, l) ==
    IF e >= l THEN l
    ELSE IF At(es, e).Key /= freeKey THEN e
    ELSE HasNextScan(es, e + 1, l)

\* lines 360-367 of HasNext, with the lastKey the first branch may have set
HasNextAdvance(mp, itr, lk) ==
    LET l == Len(mp.es)
        e == HasNextScan(mp.es, itr.i + 1, l)
    IN  [it |-> [lastKey |-> lk, i |-> e], ok |-> e < l, panic |-> FALSE]

\* mutant: HasNext moves on without testing whether the entry under the cursor
\* has been returned
HasNextAlwaysAdvance(mp, itr) ==
    IF itr.i >= Len(mp.es) /\ itr.i >= 0
    THEN [it |-> itr, ok |-> FALSE, panic |-> TRUE]
    ELSE HasNextAdvance(mp, itr, IF itr.i < 0 THEN freeKey ELSE itr.lastKey)

\* mutant: HasNext returns true at once when the slot under the cursor holds
\* lastKey, and moves on when it holds another key
HasNextStayOnLastKey(mp, itr) ==
    IF itr.i < 0
    THEN IF mp.hasFreeKey /\ itr.lastKey /= freeKey
         THEN [it |-> itr, ok |-> TRUE, panic |-> FALSE]
         ELSE HasNextAdvance(mp, itr, freeKey)
    ELSE IF itr.i >= Len(mp.es)
         THEN [it |-> itr, ok |-> FALSE, panic |-> TRUE]
         ELSE LET k == At(mp.es, itr.i).Key
              IN  IF k /= freeKey /\ k = itr.lastKey
                  THEN [it |-> itr, ok |-> TRUE, panic |-> FALSE]
                  ELSE HasNextAdvance(mp, itr, itr.lastKey)

\* the iterator after HasNext, what it returns, and whether it panics
\* (es[i.i] with i.i = len(es) is an index out of range)
HasNext(mp, itr) ==
    IF itr.i < 0
    THEN IF mp.hasFreeKey /\ itr.lastKey /= freeKey
         THEN [it |-> itr, ok |-> TRUE, panic |-> FALSE]
         ELSE HasNextAdvance(mp, itr, freeKey)
    ELSE IF itr.i >= Len(mp.es)
         THEN [it |-> itr, ok |-> FALSE, panic |-> TRUE]
         ELSE LET k == At(mp.es, itr.i).Key
              IN  IF k /= freeKey /\ k /= itr.lastKey
                  THEN [it |-> itr, ok |-> TRUE, panic |-> FALSE]
                  ELSE HasNextAdvance(mp, itr, itr.lastKey)

\* mutant: Next returns the zero pair where it should panic
IterNextNoPanic(mp, itr) ==
    IF itr.i < 0
    THEN [it |-> [itr EXCEPT !.lastKey = freeKey],
          key |-> freeKey, value |-> mp.freeKeyValue, panic |-> FALSE]
    ELSE IF itr.i >= Len(mp.es)
         THEN [it |-> itr, key |-> 0, value |-> Nil, panic |-> FALSE]
         ELSE [it |-> [itr EXCEPT !.lastKey = At(mp.es, itr.i).Key],
               key |-> At(mp.es, itr.i).Key, value |-> At(mp.es, itr.i).Value,
               panic |-> FALSE]

\* mutant: Next does not record the key it returns
IterNextNoLastKey(mp, itr) ==
    IF itr.i < 0
    THEN IF ~mp.hasFreeKey
         THEN [it |-> itr, key |-> 0, value |-> Nil, panic |-> TRUE]
         ELSE [it |-> [itr EXCEPT !.lastKey = freeKey],
               key |-> freeKey, value |-> mp.freeKeyValue, panic |-> FALSE]
    ELSE IF itr.i >= Len(mp.es)
         THEN [it |-> itr, key |-> 0, value |-> Nil, panic |-> TRUE]
         ELSE [it |-> itr,
               key |-> At(mp.es, itr.i).Key, value |-> At(mp.es, itr.i).Value,
               panic |-> FALSE]

\* the iterator after Next, the pair it returns, and whether it panics
IterNext(mp, itr) ==
    IF itr.i < 0
    THEN IF ~mp.hasFreeKey
         THEN [it |-> itr, key |-> 0, value |-> Nil, panic |-> TRUE]
         ELSE [it |-> [itr EXCEPT !.lastKey = freeKey],
               key |-> freeKey, value |-> mp.freeKeyValue, panic |-> FALSE]
    ELSE IF itr.i >= Len(mp.es)
         THEN [it |-> itr, key |-> 0, value |-> Nil, panic |-> TRUE]
         ELSE [it |-> [itr EXCEPT !.lastKey = At(mp.es, itr.i).Key],
               key |-> At(mp.es, itr.i).Key, value |-> At(mp.es, itr.i).Value,
               panic |-> FALSE]

----------------------------------------------------------------------------
(* Calls *)

NoRet == [ok |-> FALSE, key |-> 0, value |-> Nil]

\* some key sits in another slot of es1 than of es0
Moved(es0, es1) ==
    \E i \in 1..Len(es0) :
        /\ es0[i].Key /= freeKey
        /\ \E j \in 1..Len(es1) : j /= i /\ es1[j].Key = es0[i].Key

\* The record of the call that produced a state. op, key, value: the call;
\* live: the key was live before it, by the reference map (for Init: the map
\* held key 0 and a nonzero key; for HasNext and Next: the call repeats the
\* call before it); grew: the call changed len(es); moved: the
\* call moved a key that stayed in the array to another slot.
Call(op, key, value, live, m0, m1) ==
    [op |-> op, key |-> key, value |-> value, live |-> live,
     grew |-> Len(m1.es) /= Len(m0.es), moved |-> Moved(m0.es, m1.es)]

\* an iterator is in use; IterDelete and IterSet are the Delete and Set calls made
\* in the body of the loop
Iterating == last.op \in {"Iterator", "HasNext", "Next", "IterDelete", "IterSet"}

Init ==
    /\ m = ZeroMap
    /\ sm = EmptyRef
    /\ it = Iterator
    /\ last = Call("var", 0, Nil, FALSE, ZeroMap, ZeroMap)
    /\ ret = NoRet
    /\ seen = <<>>
    /\ fault = "none"

InitCall(capacity, fr) ==
    /\ fault = "none" /\ ~Iterating
    /\ m' = MapInit(m, capacity, fr)
    /\ sm' = EmptyRef
    /\ last' = Call("Init", 0, Nil,
                    freeKey \in DOMAIN sm /\ DOMAIN sm /= {freeKey}, m, m')
    /\ ret' = NoRet
    /\ UNCHANGED <<it, seen, fault>>

SetCall(key, value) ==
    /\ fault = "none" /\ ~Iterating
    /\ m' = Set(m, key, value)
    /\ sm' = RefSet(sm, key, value)
    /\ last' = Call("Set", key, value, key \in DOMAIN sm, m, m')
    /\ ret' = NoRet
    /\ fault' = IF SetHangs(m, key) THEN "hang" ELSE "none"
    /\ UNCHANGED <<it, seen>>

DeleteCall(key) ==
    /\ fault = "none" /\ ~Iterating
    /\ m' = Delete(m, key).m
    /\ sm' = RefDelete(sm, key)
    /\ last' = Call("Delete", key, Nil, key \in DOMAIN sm, m, m')
    /\ ret' = [ok |-> Delete(m, key).ok, key |-> 0, value |-> Nil]
    /\ UNCHANGED <<it, seen, fault>>

\* i := m.Iterator()
IteratorCall ==
    /\ fault = "none"
    /\ it' = Iterator
    /\ seen' = <<>>
    /\ last' = Call("Iterator", 0, Nil, FALSE, m, m)
    /\ ret' = NoRet
    /\ UNCHANGED <<m, sm, fault>>

HasNextCall ==
    /\ fault = "none" /\ Iterating
    /\ LET r == HasNext(m, it)
       IN  /\ it' = r.it
           /\ ret' = [ok |-> r.ok, key |-> 0, value |-> Nil]
           /\ fault' = IF r.panic THEN "panic" ELSE "none"
    /\ last' = Call("HasNext", 0, Nil, last.op = "HasNext", m, m)
    /\ UNCHANGED <<m, sm, seen>>

NextCall ==
    /\ fault = "none" /\ Iterating
    /\ LET r == IterNext(m, it)
       IN  /\ it' = r.it
           /\ ret' = [ok |-> ~r.panic, key |-> r.key, value |-> r.value]
           /\ seen' = IF r.panic THEN seen ELSE Append(seen, KeyValue(r.key, r.value))
           /\ fault' = IF r.panic THEN "panic" ELSE "none"
    /\ last' = Call("Next", 0, Nil, last.op = "Next", m, m)
    /\ UNCHANGED <<m, sm>>

----------------------------------------------------------------------------
(* Spec: any sequence of Init, Set and Delete calls on a zero-value Map *)

Next ==
    \/ \E c \in InitCaps, fr \in FillRatios : InitCall(c, fr)
    \/ \E k \in Keys, v \in Values : SetCall(k, v)
    \/ \E k \in Keys : DeleteCall(k)

Spec == Init /\ [][Next]_vars

----------------------------------------------------------------------------
(* SpecGrow: distinct nonzero keys inserted into New(8, 0.875), as in       *)
(* BenchmarkIntMapGet's m.Set(i, Value(i))                                  *)

InitGrow ==
    /\ m = New(DefaultCap, defaultFillRatio)
    /\ sm = EmptyRef
    /\ it = Iterator
    /\ last = Call("New", 0, Nil, FALSE, ZeroMap, ZeroMap)
    /\ ret = NoRet
    /\ seen = <<>>
    /\ fault = "none"

InsertNew(k) == k \notin DOMAIN sm /\ SetCall(k, k)

NextGrow == \E k \in GrowKeys : InsertNew(k)

SpecGrow == InitGrow /\ [][NextGrow]_vars

----------------------------------------------------------------------------
(* SpecIter: a map is built by Init, Set and Delete calls, then traversed   *)
(* by   for i := m.Iterator(); i.HasNext(); { k, v := i.Next() }            *)

LoopHasNext == last.op \in {"Iterator", "Next"} /\ HasNextCall

LoopNext == last.op = "HasNext" /\ ret.ok /\ NextCall

NextIter ==
    \/ \E c \in InitCaps, fr \in FillRatios : InitCall(c, fr)
    \/ \E k \in Keys, v \in Values : SetCall(k, v)
    \/ \E k \in Keys : DeleteCall(k)
    \/ IteratorCall
    \/ LoopHasNext
    \/ LoopNext

SpecIter == Init /\ [][NextIter]_vars

----------------------------------------------------------------------------
(* The loop of TestMap_Iter, whose body changes the map *)

\* m.Delete(k) in the body of the loop, k the key Next has just returned
IterDeleteCall ==
    /\ fault = "none" /\ last.op = "Next"
    /\ m' = Delete(m, ret.key).m
    /\ sm' = RefDelete(sm, ret.key)
    /\ last' = Call("IterDelete", ret.key, Nil, ret.key \in DOMAIN sm, m, m')
    /\ ret' = [ok |-> Delete(m, ret.key).ok, key |-> ret.key, value |-> Nil]
    /\ UNCHANGED <<it, seen, fault>>

\* m.Set(key, value) in the body of the loop, key an existing key
IterSetCall(key, value) ==
    /\ fault = "none" /\ last.op = "Next"
    /\ key \in DOMAIN sm
    /\ m' = Set(m, key, value)
    /\ sm' = RefSet(sm, key, value)
    /\ last' = Call("IterSet", key, value, TRUE, m, m')
    /\ ret' = NoRet
    /\ fault' = IF SetHangs(m, key) THEN "hang" ELSE "none"
    /\ UNCHANGED <<it, seen>>

\* it := m.Iterator() before the loop
StartLoop == ~Iterating /\ IteratorCall

\* the loop condition, after the body
BodyHasNext == last.op \in {"Iterator", "Next", "IterDelete", "IterSet"} /\ HasNextCall

\* SpecIterDel: a map is built, then traversed by a loop whose body may delete
\* the key Next has just returned
NextIterDel ==
    \/ \E c \in InitCaps, fr \in FillRatios : InitCall(c, fr)
    \/ \E k \in Keys : SetCall(k, 1)
    \/ \E k \in Keys : DeleteCall(k)
    \/ StartLoop
    \/ BodyHasNext
    \/ LoopNext
    \/ IterDeleteCall

SpecIterDel == Init /\ [][NextIterDel]_vars

\* SpecIterSet: a map is built, then traversed by a loop whose body may change
\* the value of an existing key
NextIterSet ==
    \/ \E c \in InitCaps, fr \in FillRatios : InitCall(c, fr)
    \/ \E k \in Keys : SetCall(k, 1)
    \/ \E k \in Keys : DeleteCall(k)
    \/ StartLoop
    \/ BodyHasNext
    \/ LoopNext
    \/ \E k \in Keys, v \in Values : IterSetCall(k, v)

SpecIterSet == Init /\ [][NextIterSet]_vars

\* SpecIterFree: a map is built, then HasNext and Next are called on one
\* iterator in any order; at most MaxSeen pairs are taken
FreeNext == Len(seen) < MaxSeen /\ NextCall

NextIterFree ==
    \/ \E c \in InitCaps, fr \in FillRatios : InitCall(c, fr)
    \/ \E k \in Keys : SetCall(k, 1)
    \/ \E k \in Keys : DeleteCall(k)
    \/ StartLoop
    \/ HasNextCall
    \/ FreeNext

SpecIterFree == Init /\ [][NextIterFree]_vars

\* SpecWrap: TestMap on maps of capacity WrapCap, where the keys' home slots
\* crowd at both ends of the array
NextWrap ==
    \/ \E fr \in FillRatios : InitCall(WrapCap, fr)
    \/ \E k \in Keys : SetCall(k, 1)
    \/ \E k \in Keys : DeleteCall(k)

SpecWrap == Init /\ [][NextWrap]_vars

----------------------------------------------------------------------------
(* Properties *)

Found(v) == [v |-> v, ok |-> TRUE]
NotFound == [v |-> Nil, ok |-> FALSE]

\* what the reference map answers for k
RefGet(k) == IF k \in DOMAIN sm THEN Found(sm[k]) ELSE NotFound

\* some key of the array is not in its home slot
Displaced ==
    \E i \in 1..Len(m.es) :
        /\ m.es[i].Key /= freeKey
        /\ AndMask(HashOf[m.es[i].Key], Len(m.es) - 1) /= i - 1

\* C1: after any sequence of Set and Delete calls from an empty map, Get agrees
\* with the reference map on every key of the domain: (v, true) exactly when the
\* reference maps the key to v, (zero value, false) exactly when it has no such key.
C1_GetAgreesWithReference == \A k \in Keys : Get(m, k) = RefGet(k)

\* a Delete removed a key of a doubled array and moved another key back, and a
\* key is still away from its home slot
C1_Witness ==
    /\ last.op = "Delete" /\ ret.ok /\ last.moved
    /\ Len(m.es) = 8 /\ m.threshold = 4
    /\ m.size >= 2 /\ Displaced

\* C2: Size() is the number of distinct live keys, key 0 included; and a Set of a
\* key that is already live leaves Size() as it was, also when that Set grows
\* the array.
C2_SizeCountsLiveKeys ==
    /\ Size(m) = Cardinality(DOMAIN sm)
    /\ \A k \in DOMAIN sm, v \in Values : Size(Set(m, k, v)) = Size(m)

\* a Set of a live nonzero key doubled the array
C2_Witness ==
    /\ last.op = "Set" /\ last.live /\ last.grew /\ last.key /= freeKey
    /\ Size(m) >= 2

\* C3: in every reachable state and for every key k, 0 included, Set(k, v)
\* followed by Get(k) returns (v, true).
C3_SetThenGet ==
    /\ \A k \in Keys, v \in Values : Get(Set(m, k, v), k) = Found(v)
    /\ last.op = "Set" => Get(m, last.key) = Found(last.value)

\* a Set inserted a new key and doubled the array, rehashing older keys
C3_Witness ==
    /\ last.op = "Set" /\ ~last.live /\ last.grew /\ last.moved
    /\ Get(m, last.key) = Found(last.value)

\* C4: Delete(k) for a key k that is not live returns false and leaves Size()
\* unchanged (k = 0 without free-key entry and a never allocated array included).
C4_DeleteAbsent ==
    /\ \A k \in Keys \ DOMAIN sm :
          /\ ~Delete(m, k).ok
          /\ Size(Delete(m, k).m) = Size(m)
    /\ (last.op = "Delete" /\ ~last.live) => ~ret.ok

\* a Delete of an absent nonzero key probed an array holding other keys
C4_Witness ==
    /\ last.op = "Delete" /\ ~last.live /\ ~ret.ok /\ last.key /= freeKey
    /\ m.size >= 2 /\ Size(m) = Cardinality(DOMAIN sm)

\* C5: Delete(k) returns true exactly when k was live; after a Delete(k) that
\* returned true, Get(k) is not-found, Size() is one less, and every other live
\* key still returns its previous value from Get.
C5_DeleteLive ==
    /\ \A k \in Keys :
          LET d == Delete(m, k)
          IN  /\ d.ok <=> k \in DOMAIN sm
              /\ d.ok => /\ Get(d.m, k) = NotFound
                         /\ Size(d.m) = Size(m) - 1
                         /\ \A j \in DOMAIN sm \ {k} :
                               Get(d.m, j) = Get(m, j) /\ Get(m, j).ok
    /\ last.op = "Delete" => (ret.ok <=> last.live)

\* a Delete returned true and moved another key back, across the end of the array
C5_Witness ==
    /\ last.op = "Delete" /\ ret.ok /\ last.live /\ last.moved
    /\ Len(m.es) = 4 /\ m.size = 1 /\ m.es[4].Key /= freeKey
    /\ Get(m, last.key) = NotFound

\* the frame of the free-key path: the array, the size counter and the threshold
SameArray(a, b) == a.es = b.es /\ a.size = b.size /\ a.threshold = b.threshold

\* C7: key 0 lives only in the free-key slot: Set(0, v) then Get(0) returns
\* (v, true), Delete(0) then returns true and Get(0) is not-found after it; Set(0, v)
\* and Delete(0) leave the array, the size counter, the threshold and the
\* capacity unchanged, also when size has reached the threshold.
C7_FreeKeyPath ==
    /\ (freeKey \in DOMAIN sm) <=> m.hasFreeKey
    /\ \A v \in Values :
          LET s == Set(m, freeKey, v)
              d == Delete(s, freeKey)
          IN  /\ Get(s, freeKey) = Found(v)
              /\ d.ok
              /\ Get(d.m, freeKey) = NotFound
              /\ SameArray(m, s)
              /\ SameArray(s, d.m)
    /\ SameArray(m, Delete(m, freeKey).m)

\* Delete(0) returned true on a map whose size has reached the threshold
C7_Witness ==
    /\ last.op = "Delete" /\ last.key = freeKey /\ ret.ok
    /\ m.size >= 1 /\ m.size >= m.threshold
    /\ Get(m, freeKey) = NotFound

\* a map like New(8, 0.875) that holds the free-key entry of mp
NewWithFreeKey(mp) ==
    [New(DefaultCap, defaultFillRatio) EXCEPT !.hasFreeKey = mp.hasFreeKey,
                                              !.freeKeyValue = mp.freeKeyValue]

\* C8 as stated: while the array of a zero-value Map is unallocated, Get and
\* Delete of any key return not-found / false.
C8_UnallocatedFindsNothing ==
    Len(m.es) = 0 =>
        \A k \in Keys : Get(m, k) = NotFound /\ ~Delete(m, k).ok

\* C8, amended: while the array of a zero-value Map is unallocated, Get and
\* Delete of any key that is not live (every nonzero key, and key 0 unless it was
\* Set) return not-found / false, Get(0) and Delete(0) answer for a key 0 that
\* was Set, and Size() is 0 or 1 according to key 0; the first Set of a nonzero
\* key allocates capacity 8 with threshold 7 and stores the key, and leaves the
\* map in the state New(8, 0.875) would be in after the same Set.
C8_ZeroValueMap ==
    Len(m.es) = 0 =>
        /\ DOMAIN sm \subseteq {freeKey}
        /\ \A k \in Keys : Get(m, k) = RefGet(k)
        /\ \A k \in Keys : Delete(m, k).ok <=> k \in DOMAIN sm
        /\ \A k \in Keys \ DOMAIN sm : Delete(m, k).m = m
        /\ Size(m) = IF m.hasFreeKey THEN 1 ELSE 0
        /\ \A k \in Keys \ {freeKey}, v \in Values :
              LET s == Set(m, k, v)
              IN  /\ Len(s.es) = 8 /\ s.threshold = 7 /\ s.size = 1
                  /\ Get(s, k) = Found(v)
                  /\ s = Set(NewWithFreeKey(m), k, v)

\* the first Set of a nonzero key on a zero-value Map that holds key 0
C8_Witness ==
    /\ last.op = "Set" /\ last.key /= freeKey /\ last.grew
    /\ Len(m.es) = 8 /\ m.threshold = 7 /\ m.size = 1 /\ m.hasFreeKey
    /\ Get(m, last.key) = Found(last.value)

\* every slot of the array is empty
AllEmpty(mp) == \A i \in 1..Len(mp.es) : mp.es[i] = KeyValue(freeKey, Nil)

Reset(mp) ==
    /\ Size(mp) = 0
    /\ mp.size = 0
    /\ AllEmpty(mp)
    /\ \A k \in Keys : Get(mp, k) = NotFound

\* C9: Init on a map in any state resets it: Size() is 0, Get of every key, 0
\* included, is not-found, every array slot is empty and the size counter is 0.
C9_InitResets ==
    /\ last.op = "Init" => Reset(m)
    /\ \A c \in InitCaps, fr \in FillRatios : Reset(MapInit(m, c, fr))

\* Init was called on a map that held key 0 and a nonzero key
C9_Witness == last.op = "Init" /\ last.live /\ Reset(m)

\* C6: New(8, 0.875) has capacity 8 and threshold 7; up to 7 distinct nonzero keys
\* leave the capacity at 8; the 8th distinct nonzero key grows it to 16 within
\* that Set, and all 8 keys are then retrievable.
C6_GrowthTrigger ==
    LET n == Cardinality(DOMAIN sm)
    IN  /\ n = 0 => Len(m.es) = 8 /\ m.threshold = 7
        /\ n <= 7 => Len(m.es) = 8
        /\ n = 8 => /\ Len(m.es) = 16
                    /\ last.op = "Set" /\ last.grew
                    /\ \A k \in DOMAIN sm : Get(m, k) = Found(sm[k])
        /\ n <= 8 => Size(m) = n

\* the 8th distinct key was inserted and doubled the array
C6_Witness ==
    /\ Cardinality(DOMAIN sm) = 8 /\ last.op = "Set" /\ last.grew
    /\ Len(m.es) = 16 /\ m.size = 8

\* the pairs Get finds in the map
LivePairs == {KeyValue(k, Get(m, k).v) : k \in {j \in Keys : Get(m, j).ok}}

SeenPairs == {seen[i] : i \in 1..Len(seen)}

\* C10: on an unmodified map, a full traversal (HasNext returns true, then Next,
\* repeated) from a fresh Iterator returns every live pair exactly once, key 0
\* included, returns no pair that is not live, and HasNext returns false after
\* exactly Size() pairs.
C10_FullTraversal ==
    Iterating =>
        /\ fault = "none"
        /\ SeenPairs \subseteq LivePairs
        /\ Cardinality(SeenPairs) = Len(seen)
        /\ (last.op = "HasNext" /\ ret.ok) => Len(seen) < Size(m)
        /\ (last.op = "HasNext" /\ ~ret.ok) =>
              SeenPairs = LivePairs /\ Len(seen) = Size(m)
        /\ last.op = "Next" => seen[Len(seen)] = KeyValue(ret.key, ret.value)

\* a traversal of a map with key 0 and nonzero keys, some of them away from
\* their home slot, has ended
C10_Witness ==
    /\ last.op = "HasNext" /\ ~ret.ok
    /\ m.hasFreeKey /\ m.size >= 3 /\ Displaced
    /\ Len(seen) = Size(m)

NoKeyTwice == \A i, j \in 1..Len(seen) : seen[i].Key = seen[j].Key => i = j

\* the loop has ended: HasNext has returned false
Ended == last.op = "HasNext" /\ ~ret.ok /\ fault = "none"

\* C11: in a traversal whose only mutations are Delete calls on the key Next has
\* just returned, no key is returned twice (so none is returned after it was
\* deleted), and every key that is still live when the traversal ends has been
\* returned.
C11_DeleteLastReturned ==
    Iterating =>
        /\ fault = "none"
        /\ NoKeyTwice
        /\ Ended => DOMAIN sm \subseteq {seen[i].Key : i \in 1..Len(seen)}

\* C12: in a traversal whose body changes the value of existing keys with Set,
\* no key is returned twice, every live key has been returned when the
\* traversal ends, and no call fails.
C12_SetExistingKey ==
    Iterating =>
        /\ fault = "none"
        /\ NoKeyTwice
        /\ Ended => DOMAIN sm \subseteq {seen[i].Key : i \in 1..Len(seen)}

\* the repeats of a pair in seen are next to each other
RepeatsAdjacent ==
    \A i, j \in 1..Len(seen) :
        (i < j /\ seen[i].Key = seen[j].Key) => \A n \in i..j : seen[n] = seen[i]

C14_NextOnEmptyMap ==
    /\ Size(m) = 0 =>
           /\ IterNext(m, Iterator).panic
           /\ LET h == HasNext(m, Iterator)
              IN  ~h.ok /\ ~h.panic /\ IterNext(m, h.it).panic
    /\ (last.op = "Next" /\ DOMAIN sm = {}) => fault = "panic" /\ seen = <<>>

C14_Witness ==
    /\ last.op = "Next" /\ fault = "panic"
    /\ Size(m) = 0 /\ Len(m.es) > 0 /\ it.i = Len(m.es)

\* C15: Delete leaves len(es) and threshold as they are; Set leaves len(es) as
\* it is, or allocates the first 8 slots, or doubles len(es), and changes it
\* only when size >= threshold at the start of the call; so over Set and Delete
\* calls len(es) never decreases.
C15_CapacityNeverShrinks ==
    /\ \A k \in Keys :
           LET d == Delete(m, k).m
           IN  Len(d.es) = Len(m.es) /\ d.threshold = m.threshold
    /\ \A k \in Keys, v \in Values :
           LET s == Set(m, k, v)
           IN  \/ Len(s.es) = Len(m.es)
               \/ /\ k /= freeKey /\ m.size >= m.threshold
                  /\ \/ Len(m.es) = 0 /\ Len(s.es) = DefaultCap
                     \/ Len(m.es) > 0 /\ Len(s.es) = 2 * Len(m.es)
    /\ last.op = "Delete" => ~last.grew

\* every key of a map grown to 16 slots has been deleted
C15_Witness ==
    /\ last.op = "Delete" /\ ret.ok
    /\ Size(m) = 0 /\ Len(m.es) = 16 /\ m.threshold = 8

\* C16: Keys() returns a slice of length Size() that holds every live key once
\* and no other key; it holds key 0 exactly when the free-key entry is present.
\* (Keys() assigns to no field of the map.)
C16_KeysListsLiveKeys ==
    LET r == MapKeys(m)
    IN  /\ ~r.panic
        /\ Len(r.ks) = Size(m)
        /\ {r.ks[i] : i \in 1..Len(r.ks)} = DOMAIN sm
        /\ \A i, j \in 1..Len(r.ks) : r.ks[i] = r.ks[j] => i = j
        /\ (\E i \in 1..Len(r.ks) : r.ks[i] = freeKey) <=> m.hasFreeKey

\* Keys() of a map that holds key 0 and three more keys, one of them in slot 0
C16_Witness ==
    /\ m.hasFreeKey /\ Len(MapKeys(m).ks) = 4
    /\ Len(m.es) > 0 /\ m.es[1].Key /= freeKey
    /\ MapKeys(m).ks[1] = freeKey /\ MapKeys(m).ks[2] = m.es[1].Key

IsPowerOf2(n) == \E e \in 0..30 : n = Pow2(e)

\* len(es) is a power of two >= 2 and 1 <= threshold < len(es)
WellSized(mp) ==
    /\ IsPowerOf2(Len(mp.es)) /\ Len(mp.es) >= 2
    /\ 1 <= mp.threshold /\ mp.threshold < Len(mp.es)

\* New gives a well-sized map for every capacity and fill ratio asked for
NewWellSized ==
    \A c \in 0..(8 * MaxInitCap), fr \in FillRatios : WellSized(New(c, fr))

\* C17: once the array is allocated, len(es) is a power of two >= 2 and
\* 1 <= threshold < len(es): Init and New establish it for every requested
\* capacity and fill ratio, and a Set that grows the map doubles both len(es)
\* and threshold and so keeps it.
C17_CapacityAndThreshold ==
    /\ Len(m.es) > 0 => WellSized(m)
    /\ NewWellSized
    /\ \A k \in Keys \ {freeKey} :
           (Len(m.es) > 0 /\ m.size >= m.threshold) =>
               LET s == Set(m, k, 1)
               IN  /\ Len(s.es) = 2 * Len(m.es)
                   /\ s.threshold = 2 * m.threshold
                   /\ WellSized(s)

\* a Set has doubled an array of 8 slots with threshold 4
C17_Witness ==
    /\ last.op = "Set" /\ last.grew
    /\ Len(m.es) = 16 /\ m.threshold = 8 /\ m.size = 5

\* the home slot of the key in slot p
Home(p) == AndMask(HashOf[At(m.es, p).Key], Len(m.es) - 1)

\* slot q lies on the cyclic path from slot h to slot p
OnPath(h, q, p) == (q - h) % Len(m.es) <= (p - h) % Len(m.es)

Slots == 0..(Len(m.es) - 1)

\* C18: every slot of the array is either empty (key 0, nil value) or holds a
\* live key with its value, no key sits in two slots, and for every key in a
\* slot p every slot on the cyclic path from its home slot to p is occupied.
C18_NoGapInProbeChain ==
    /\ \A p \in Slots :
           IF At(m.es, p).Key = freeKey
           THEN At(m.es, p).Value = Nil
           ELSE /\ At(m.es, p).Key \in DOMAIN sm
                /\ At(m.es, p).Value = sm[At(m.es, p).Key]
                /\ \A q \in Slots :
                       OnPath(Home(p), q, p) => At(m.es, q).Key /= freeKey
    /\ \A p, q \in Slots :
           (At(m.es, p).Key /= freeKey /\ At(m.es, p).Key = At(m.es, q).Key) => p = q

\* a Delete has moved a key back, and a key's path from its home slot passes
\* the end of the array
C18_Witness ==
    /\ last.op = "Delete" /\ ret.ok /\ last.moved
    /\ \E p \in Slots : At(m.es, p).Key /= freeKey /\ Home(p) > p

\* C19: when size = threshold, Set of a nonzero key that is already live doubles
\* len(es) and threshold and rehashes; Size() and the size counter stay as they
\* were, and the map then holds the new value for the key and every other pair
\* as before.
C19_GrowthOnLiveKey ==
    /\ \A k \in DOMAIN sm \ {freeKey}, v \in Values :
           (Len(m.es) > 0 /\ m.size = m.threshold) =>
               LET s == Set(m, k, v)
               IN  /\ Len(s.es) = 2 * Len(m.es)
                   /\ s.threshold = 2 * m.threshold
                   /\ s.size = m.size /\ Size(s) = Size(m)
                   /\ Get(s, k) = Found(v)
                   /\ \A j \in Keys \ {k} : Get(s, j) = Get(m, j)
    /\ (last.op = "Set" /\ last.live /\ last.key /= freeKey /\ last.grew) =>
           /\ m.threshold = 2 * m.size
           /\ Size(m) = Cardinality(DOMAIN sm)
           /\ Get(m, last.key) = Found(last.value)

\* a Set of a live nonzero key found size = threshold = 4 and doubled the array
C19_Witness ==
    /\ last.op = "Set" /\ last.live /\ last.key /= freeKey /\ last.grew
    /\ m.size = 4 /\ m.threshold = 8 /\ Len(m.es) = 16
    /\ m.hasFreeKey /\ Size(m) = 5

\* the pairs held in the slots of es
PairsOf(es) == {es[i] : i \in {j \in 1..Len(es) : es[j].Key /= freeKey}}

\* the map inside rehash, after the first n slots of the old array were reinserted
RehashPrefix(n) ==
    rehashFrom([m EXCEPT !.es = make(Len(m.es) * 2), !.size = 0, !.threshold = @ * 2],
               SubSeq(m.es, 1, n), 0)

\* C20: when Set finds size >= threshold on an allocated array, rehash doubles
\* len(es) and threshold once: before and after each reinsertion the array has
\* the doubled length and size is below the doubled threshold, so no reinserting
\* Set grows again; when rehash returns, the new array holds exactly the pairs
\* of the old one, each in one slot, size is what it was, and the free-key entry
\* is as it was.
C20_SingleDoubling ==
    /\ (Len(m.es) > 0 /\ m.size >= m.threshold) =>
           /\ \A n \in 0..Len(m.es) :
                  LET p == RehashPrefix(n)
                  IN  /\ Len(p.es) = 2 * Len(m.es)
                      /\ p.threshold = 2 * m.threshold
                      /\ p.size < p.threshold
                      /\ p.size = Cardinality(PairsOf(SubSeq(m.es, 1, n)))
           /\ LET r == rehash(m)
              IN  /\ r = RehashPrefix(Len(m.es))
                  /\ Len(r.es) = 2 * Len(m.es)
                  /\ r.threshold = 2 * m.threshold
                  /\ PairsOf(r.es) = PairsOf(m.es)
                  /\ Cardinality({i \in 1..Len(r.es) : r.es[i].Key /= freeKey}) = m.size
                  /\ r.size = m.size
                  /\ r.hasFreeKey = m.hasFreeKey
                  /\ r.freeKeyValue = m.freeKeyValue
    /\ (last.op = "Set" /\ last.grew) =>
           /\ m.size <= m.threshold
           /\ m.size = Cardinality(DOMAIN sm \ {freeKey})

\* a Set of a new key has doubled an array of 4 slots that held 2 keys, beside
\* key 0, and a key has changed its slot
C20_Witness ==
    /\ last.op = "Set" /\ last.grew /\ last.moved /\ ~last.live
    /\ Len(m.es) = 8 /\ m.size = 3 /\ m.hasFreeKey /\ m.freeKeyValue = MaxVal

\* the cursor is an index of the array
Positioned == it.i >= 0 /\ it.i < Len(m.es)

\* C21 as stated: when the cursor is an index of the array and its slot holds
\* the key Next returned last, HasNext returns true and leaves the cursor.
C21_StaysOnLastKey ==
    (Iterating /\ fault = "none" /\ Positioned
         /\ At(m.es, it.i).Key /= freeKey /\ At(m.es, it.i).Key = it.lastKey) =>
        HasNext(m, it) = [it |-> it, ok |-> TRUE, panic |-> FALSE]

\* C21, amended: when the cursor is an index of the array, HasNext returns true
\* and leaves the iterator as it is exactly when the slot under the cursor
\* holds a key other than lastKey (a key Next has not returned yet); when the
\* slot holds lastKey, HasNext moves the cursor to the next occupied slot and
\* returns true, or to len(es) and returns false. After a HasNext that returned
\* true with the cursor in the array, the slot under it holds a key that is
\* not lastKey.
C21_HasNextTestsLastKey ==
    /\ (Iterating /\ fault = "none" /\ Positioned) =>
           LET k == At(m.es, it.i).Key
               r == HasNext(m, it)
               e == HasNextScan(m.es, it.i + 1, Len(m.es))
           IN  IF k /= freeKey /\ k /= it.lastKey
               THEN r = [it |-> it, ok |-> TRUE, panic |-> FALSE]
               ELSE /\ r.it = [lastKey |-> it.lastKey, i |-> e]
                    /\ e > it.i
                    /\ r.ok <=> e < Len(m.es)
                    /\ ~r.panic
    /\ (last.op = "HasNext" /\ ret.ok /\ fault = "none" /\ Positioned) =>
           At(m.es, it.i).Key \notin {freeKey, it.lastKey}

\* HasNext has moved the cursor off the slot of the key Next returned last,
\* which still holds that key, to a later occupied slot
C21_Witness ==
    /\ last.op = "HasNext" /\ ret.ok /\ fault = "none" /\ Positioned
    /\ it.lastKey /= freeKey
    /\ \E j \in 0..(it.i - 1) : At(m.es, j).Key = it.lastKey

\* C22: once HasNext has returned false, a further HasNext on the unmodified map
\* returns false, leaves the iterator as it is and does not fail; no repeated
\* HasNext call fails.
C22_ExhaustionStable ==
    /\ Ended => HasNext(m, it) = [it |-> it, ok |-> FALSE, panic |-> FALSE]
    /\ (last.op = "HasNext" /\ last.live) => fault = "none"

\* the home slot of key k in the array of m
HomeOf(k) == AndMask(HashOf[k], Len(m.es) - 1)

\* C23: no Set call hangs. Once the array is allocated, size <= threshold <
\* len(es) and size counts the occupied slots, so some slot is empty; for every
\* key the probing loop of Set, run after the growth check, reaches an empty
\* slot or the key, and the loops of Get and Delete never leave by the exit
\* taken when idx is back at startIdx.
C23_SetTerminates ==
    /\ fault /= "hang"
    /\ Len(m.es) > 0 =>
           /\ m.size <= m.threshold /\ m.threshold < Len(m.es)
           /\ m.size = Cardinality({p \in Slots : At(m.es, p).Key /= freeKey})
           /\ \E p \in Slots : At(m.es, p).Key = freeKey
    /\ \A k \in Keys \cup GrowKeys :
           /\ ~SetHangs(m, k)
           /\ (k /= freeKey /\ Len(m.es) > 0) =>
                  /\ ~GetWraps(m.es, k, HomeOf(k), HomeOf(k), Len(m.es) - 1)
                  /\ ~DeleteWraps(m.es, k, HomeOf(k), HomeOf(k), Len(m.es) - 1)

\* a Set has put a new key into an array of 4 slots, past the end of the array
\* and around to its start, and has left one slot empty
C23_Witness ==
    /\ last.op = "Set" /\ ~last.live /\ ~last.grew /\ fault = "none"
    /\ Len(m.es) = 4 /\ m.size = 3 /\ m.threshold = 3
    /\ \E p \in Slots : At(m.es, p).Key = last.key /\ Home(p) > p

====
